---- MODULE Spec2Model ----
(***************************************************************************)
(* A model of redis-from-scratch (src/src/main.rs): the RESP codec         *)
(* (resp::encode, resp::decode) and the TCP server built on it             *)
(* (server::TcpServer::new, handleRequest, handleCommand).                 *)
(*                                                                         *)
(* A byte string is a sequence of one-character strings.  A Rust panic     *)
(* (unwrap on None/Err, panic!, todo!) is a failed result that names the   *)
(* source line that raised it.                                             *)
(***************************************************************************)
EXTENDS Integers, Sequences, FiniteSets, TLC

(***************************************************************************)
(* Bounds of the model.                                                    *)
(***************************************************************************)
\* Longest text of a SimpleString / BulkString leaf drawn as a codec input.
MaxStrLen == 2
\* Largest declared length written in front of a raw bulk-string frame.
MaxDeclared == 3
\* Most requests the clients send in all.
MaxReqs == 2

CR == "\r"
LF == "\n"
CRLF == <<CR, LF>>

\* The bytes leaf texts are made of: a letter, and the two terminator bytes.
Alphabet == {"a", CR, LF}

-----------------------------------------------------------------------------
(***************************************************************************)
(* mod resp: the value type.                                               *)
(***************************************************************************)
SimpleString(s) == [t |-> "SimpleString", s |-> s, a |-> <<>>]
BulkString(s) == [t |-> "BulkString", s |-> s, a |-> <<>>]
Array(items) == [t |-> "Array", s |-> <<>>, a |-> items]

\* What a panicking call leaves in place of a value.
NoValue == [t |-> "none", s |-> <<>>, a |-> <<>>]

Ok(v, remaining) == [ok |-> TRUE, val |-> v, rest |-> remaining, err |-> "none"]
Panic(site) == [ok |-> FALSE, val |-> NoValue, rest |-> <<>>, err |-> site]

(***************************************************************************)
(* format!("{}", n) of a usize: its decimal digits, no sign, no padding.   *)
(***************************************************************************)
Digits == <<"0", "1", "2", "3", "4", "5", "6", "7", "8", "9">>

RECURSIVE ToDecimal(_)
ToDecimal(n) ==
    IF n < 10 THEN <<Digits[n + 1]>>
    ELSE ToDecimal(n \div 10) \o <<Digits[(n % 10) + 1]>>

(***************************************************************************)
(* str::parse::<usize>: an optional leading '+', then one or more decimal  *)
(* digits (leading zeros allowed); anything else is an Err.  -1 stands for *)
(* Err.  Texts of the lengths used here stay far below usize::MAX, so the  *)
(* overflow Err does not arise.                                            *)
(***************************************************************************)
DigitValue(c) == (CHOOSE i \in 1..10 : Digits[i] = c) - 1

IsDigit(c) == \E i \in 1..10 : Digits[i] = c

RECURSIVE DigitsValue(_, _)
DigitsValue(s, acc) ==
    IF s = <<>> THEN acc
    ELSE DigitsValue(Tail(s), acc * 10 + DigitValue(Head(s)))

ParseUsize(s) ==
    LET body == IF s # <<>> /\ Head(s) = "+" THEN Tail(s) ELSE s
    IN  IF body = <<>> \/ \E i \in 1..Len(body) : ~IsDigit(body[i])
        THEN -1
        ELSE DigitsValue(body, 0)

(***************************************************************************)
(* str::split_once("\r\n"): splits at the FIRST occurrence of CR LF.       *)
(***************************************************************************)
FindCRLF(s) ==
    LET hits == {i \in 1..(Len(s) - 1) : s[i] = CR /\ s[i + 1] = LF}
    IN  IF hits = {} THEN 0
        ELSE CHOOSE i \in hits : \A j \in hits : i <= j

SplitOnce(s) ==
    LET i == FindCRLF(s)
    IN  IF i = 0
        THEN [found |-> FALSE, before |-> <<>>, after |-> <<>>]
        ELSE [found |-> TRUE,
              before |-> SubSeq(s, 1, i - 1),
              after |-> SubSeq(s, i + 2, Len(s))]

(***************************************************************************)
(* resp::encode.                                                           *)
(***************************************************************************)
RECURSIVE encode(_)
RECURSIVE encodeItems(_)

encodeItems(items) ==
    IF items = <<>> THEN <<>>
    ELSE encode(Head(items)) \o encodeItems(Tail(items))

encode(respType) ==
    CASE respType.t = "SimpleString" ->
            <<"+">> \o respType.s \o CRLF
      [] respType.t = "BulkString" ->
            <<"$">> \o ToDecimal(Len(respType.s)) \o CRLF \o respType.s \o CRLF
      [] respType.t = "Array" ->
            <<"*">> \o ToDecimal(Len(respType.a)) \o CRLF \o encodeItems(respType.a)

(***************************************************************************)
(* resp::decode.  Each arm fails where the Rust code unwraps or panics.    *)
(***************************************************************************)
decodeSimpleString(s) ==
    LET sp == SplitOnce(Tail(s))
    IN  IF ~sp.found THEN Panic("L53_no_crlf")
        ELSE Ok(SimpleString(sp.before), sp.after)

\* A check that only refuses a payload longer than declared.
LengthCheckTooLong(payload, length) == Len(payload) > length

\* `if s.len( ) != length { panic!( ) }`
LengthCheckFails(payload, length) == Len(payload) # length

decodeBulkString(s) ==
    LET head == SplitOnce(Tail(s))
    IN  IF ~head.found THEN Panic("L60_no_crlf")
        ELSE LET body == SplitOnce(head.after)
             IN  IF ~body.found THEN Panic("L62_no_crlf")
                 ELSE LET length == ParseUsize(head.before)
                      IN  IF length < 0 THEN Panic("L64_parse_length")
                          ELSE IF LengthCheckFails(body.before, length)
                               THEN Panic("L66_length_mismatch")
                               ELSE Ok(BulkString(body.before), body.after)

RECURSIVE decode(_)
RECURSIVE decodeItems(_, _)

\* The for loop of the '*' arm: `length` calls of decode, each on what the
\* previous one left.
decodeItems(length, data) ==
    IF length = 0 THEN [ok |-> TRUE, items |-> <<>>, rest |-> data, err |-> "none"]
    ELSE LET first == decode(data)
         IN  IF ~first.ok
             THEN [ok |-> FALSE, items |-> <<>>, rest |-> <<>>, err |-> first.err]
             ELSE LET more == decodeItems(length - 1, first.rest)
                  IN  IF ~more.ok THEN more
                      ELSE [ok |-> TRUE, items |-> <<first.val>> \o more.items,
                            rest |-> more.rest, err |-> "none"]

decodeArray(s) ==
    LET head == SplitOnce(Tail(s))
    IN  IF ~head.found THEN Panic("L73_no_crlf")
        ELSE LET length == ParseUsize(head.before)
             IN  IF length < 0 THEN Panic("L75_parse_length")
                 ELSE LET got == decodeItems(length, head.after)
                      IN  IF ~got.ok THEN Panic(got.err)
                          ELSE Ok(Array(got.items), got.rest)

decode(s) ==
    IF s = <<>> THEN Panic("L47_empty_input")
    ELSE CASE Head(s) = "+" -> decodeSimpleString(s)
           [] Head(s) = "$" -> decodeBulkString(s)
           [] Head(s) = "*" -> decodeArray(s)
           [] OTHER -> Panic("L89_invalid_type_tag")

-----------------------------------------------------------------------------
(***************************************************************************)
(* mod server: the command dispatch.                                       *)
(***************************************************************************)
PING == <<"P", "I", "N", "G">>
PONG == <<"P", "O", "N", "G">>
SET == <<"S", "E", "T">>
GET == <<"G", "E", "T">>

\* A handler that answers, as the comment on the PING arm has it, "a copy of
\* the argument as a bulk".
pingHandlerBulk(arg) == BulkString(arg)

pingHandler(arg) == SimpleString(arg)

\* iterator.next().map_or("PONG", |v| *v): the element after the command
\* name, when there is one.
PingArg(vector) == IF Len(vector) >= 2 THEN vector[2] ELSE PONG

handleCommand(vector) ==
    IF vector = <<>> THEN Panic("L170_no_command")
    ELSE CASE vector[1] = PING -> Ok(pingHandler(PingArg(vector)), <<>>)
           [] vector[1] = SET -> Panic("L182_todo")
           [] vector[1] = GET -> Panic("L184_todo")
           [] OTHER -> Panic("L186_unknown_command")

Response(bytes) == [ok |-> TRUE, bytes |-> bytes, err |-> "none"]
RequestPanic(site) == [ok |-> FALSE, bytes |-> <<>>, err |-> site]

\* handleRequest decodes ONE value from the front of the request and drops
\* the remainder (`let (decodedRequest, _)= resp::decode(&request)`).
handleRequest(request) ==
    IF request = <<>> THEN RequestPanic("L140_empty_request")
    ELSE IF Head(request) # "*" THEN RequestPanic("L142_not_an_array")
    ELSE LET decoded == decode(request)
         IN  IF ~decoded.ok THEN RequestPanic(decoded.err)
             ELSE LET array == decoded.val.a
                  IN  IF \E i \in 1..Len(array) : array[i].t # "BulkString"
                      THEN RequestPanic("L154_not_a_bulk_string")
                      ELSE LET vector == [i \in 1..Len(array) |-> array[i].s]
                               result == handleCommand(vector)
                           IN  IF ~result.ok THEN RequestPanic(result.err)
                               ELSE Response(encode(result.val))

(***************************************************************************)
(* The clients.  A request is an array of bulk strings, the first naming   *)
(* the command (main.rs:134-136; main's `*1\r\n$4\r\nPING\r\n`).           *)
(***************************************************************************)
Conns == {"c1", "c2"}

RECURSIVE WireBulks(_)
WireBulks(args) ==
    IF args = <<>> THEN <<>>
    ELSE <<"$">> \o ToDecimal(Len(Head(args))) \o CRLF \o Head(args) \o CRLF
             \o WireBulks(Tail(args))

Req(args) == <<"*">> \o ToDecimal(Len(args)) \o CRLF \o WireBulks(args)

Keys == {<<"x">>, <<"y">>}

\* The value a client writes: each client has one of its own.
OwnValue(c) == IF c = "c1" THEN <<"1">> ELSE <<"2">>

ReqPing == Req(<<PING>>)
\* The arguments a client gives PING: a letter, and a lone LF.
PingArgs == {<<"a">>, <<LF>>}
ReqPingArg(arg) == Req(<<PING, arg>>)
ReqSet(k, v) == Req(<<SET, k, v>>)
ReqGet(k) == Req(<<GET, k>>)
ReqUnknown == Req(<<<<"F", "O", "O">>>>)
ReqGetNoKey == Req(<<GET>>)
\* A frame whose bulk string declares 3 bytes and holds 2.
ReqBadLength == <<"*", "1", CR, LF, "$", "3", CR, LF, "a", "a", CR, LF>>

\* A frame whose only item starts with a byte that is no type tag.
ReqBadTag == <<"*", "1", CR, LF, "?", CR, LF>>
\* PING with two arguments.
ReqPingTwo == Req(<<PING, <<"a">>, <<"a">>>>)
\* Well-formed values that are no command: a top-level SimpleString, the
\* empty array, an array that holds a SimpleString.
ReqNotArray == encode(SimpleString(<<"a">>))
ReqEmptyArray == encode(Array(<<>>))
ReqSimpleItem == encode(Array(<<SimpleString(<<"a">>)>>))

Requests(c) ==
    {ReqPing, ReqUnknown, ReqGetNoKey, ReqBadLength, ReqBadTag, ReqPingTwo,
     ReqNotArray, ReqEmptyArray, ReqSimpleItem}
        \cup {ReqPingArg(arg) : arg \in PingArgs}
        \cup {ReqSet(k, OwnValue(c)) : k \in Keys} \cup {ReqGet(k) : k \in Keys}

RECURSIVE Flatten(_)
Flatten(seqs) == IF seqs = <<>> THEN <<>> ELSE Head(seqs) \o Flatten(Tail(seqs))

-----------------------------------------------------------------------------
(***************************************************************************)
(* State.  The c* variables are a caller of the codec (encode, then        *)
(* decode, then decode again on what was left).                            *)
(***************************************************************************)
VARIABLES
    corigin,    \* "value": the input is an encoded value; "raw": raw bytes;
                \* "prefix": a proper prefix of an encoded value
    cphase,     \* "value", "raw", "encoded", "decoded", "decoded2"
    cv,         \* the value that is encoded (NoValue for raw input)
    crest,      \* the bytes that follow the encoded value in the buffer
    cin,        \* the buffer handed to the latest decode
    cres        \* what the latest decode returned

codecVars == <<corigin, cphase, cv, crest, cin, cres>>

(***************************************************************************)
(* State of TcpServer::new: the accept loop and one worker thread per      *)
(* connection, and of the clients at the other end.                        *)
(***************************************************************************)
VARIABLES
    listener,   \* "accepting", or "panicked" (the expect of line 113)
    pc,         \* per connection: where its worker is
    sent,       \* per connection: the requests the client has written
    closed,     \* per connection: the client has shut down its sending side
    request,    \* per connection: the String read_to_string filled
    out,        \* per connection: the bytes written to the stream
    fault       \* per connection: the line whose panic ended the worker

serverVars == <<listener, pc, sent, closed, request, out, fault>>

vars == <<codecVars, serverVars>>

NotRun == Panic("not_run")

(***************************************************************************)
(* Inputs of the codec.                                                    *)
(***************************************************************************)
MaxArrLen == 2

Strs(n) == UNION {[1..k -> Alphabet] : k \in 0..n}

LeafValues ==
    {SimpleString(s) : s \in Strs(MaxStrLen)} \cup {BulkString(s) : s \in Strs(MaxStrLen)}

\* What the arrays drawn as inputs are made of: leaves and nested arrays.
ItemPool ==
    {SimpleString(<<>>), SimpleString(<<"a">>), BulkString(<<>>), BulkString(<<"a">>),
     BulkString(CRLF), Array(<<>>), Array(<<BulkString(<<"a">>)>>)}

ArrayValues == {Array(items) : items \in UNION {[1..k -> ItemPool] : k \in 0..MaxArrLen}}

Values == LeafValues \cup ArrayValues

\* A second pipelined value, stray bytes, or nothing.
NextValues == {SimpleString(<<"a">>), BulkString(<<"a">>), Array(<<BulkString(<<"a">>)>>)}

Rests == {<<>>, <<"a">>, CRLF, <<"$">>} \cup {encode(v) : v \in NextValues}

\* `$<n>\r\n<payload>\r\n<rest>`: a bulk-string frame that declares n bytes.
BulkFrame(n, payload, rest) ==
    <<"$">> \o ToDecimal(n) \o CRLF \o payload \o CRLF \o rest

RawInputs ==
    {BulkFrame(n, p, r) : n \in 0..MaxDeclared, p \in Strs(MaxStrLen), r \in Rests}

\* The null markers of RESP, each followed by more bytes or by nothing.
NullBulkFrame(rest) == <<"$", "-", "1">> \o CRLF \o rest
NullArrayFrame(rest) == <<"*", "-", "1">> \o CRLF \o rest

NullInputs == {NullBulkFrame(r) : r \in Rests} \cup {NullArrayFrame(r) : r \in Rests}

\* Frames whose length or count is written with a plus sign or a leading
\* zero.
SignedLength(n) == <<"+">> \o ToDecimal(n)
PaddedLength(n) == <<"0">> \o ToDecimal(n)

NonCanonicalLengths(n) == {SignedLength(n), PaddedLength(n)}

NonCanonicalInputs ==
    UNION {{<<"$">> \o len \o CRLF \o p \o CRLF \o r :
                len \in NonCanonicalLengths(Len(p)), r \in {<<>>, <<"a">>}} :
           p \in Strs(1)}
    \cup
    UNION {{<<"*">> \o len \o CRLF \o encodeItems(items) \o r :
                len \in NonCanonicalLengths(Len(items)), r \in {<<>>, <<"a">>}} :
           items \in {<<>>} \cup {<<v>> : v \in NextValues}}

\* The first k bytes of a buffer.
Prefix(bytes, k) == SubSeq(bytes, 1, k)

CodecIdle ==
    /\ corigin = "idle"
    /\ cphase = "idle"
    /\ cv = NoValue
    /\ crest = <<>>
    /\ cin = <<>>
    /\ cres = NotRun

CodecInputs ==
    \/ /\ corigin = "value"
       /\ cphase = "value"
       /\ cv \in Values
       /\ crest \in Rests
       /\ cin = <<>>
       /\ cres = NotRun
    \/ /\ corigin = "raw"
       /\ cphase = "raw"
       /\ cv = NoValue
       /\ crest = <<>>
       /\ cin \in RawInputs \cup NullInputs \cup NonCanonicalInputs
       /\ cres = NotRun
    \/ /\ corigin = "prefix"
       /\ cphase = "raw"
       /\ cv \in Values
       /\ crest = <<>>
       /\ \E k \in 0..(Len(encode(cv)) - 1) : cin = Prefix(encode(cv), k)
       /\ cres = NotRun

\* The caller encodes its value and puts it in front of the rest.
Encode ==
    /\ cphase = "value"
    /\ cin' = encode(cv) \o crest
    /\ cphase' = "encoded"
    /\ UNCHANGED <<corigin, cv, crest, cres, serverVars>>

\* The caller decodes the buffer.
Decode ==
    /\ cphase \in {"encoded", "raw"}
    /\ cres' = decode(cin)
    /\ cphase' = "decoded"
    /\ UNCHANGED <<corigin, cv, crest, cin, serverVars>>

\* The caller decodes what the first decode left.
DecodeNext ==
    /\ cphase = "decoded"
    /\ cres.ok
    /\ cres.rest # <<>>
    /\ cin' = cres.rest
    /\ cres' = decode(cres.rest)
    /\ cphase' = "decoded2"
    /\ UNCHANGED <<corigin, cv, crest, serverVars>>

CodecNext == Encode \/ Decode \/ DecodeNext

-----------------------------------------------------------------------------
(***************************************************************************)
(* TcpServer::new.                                                         *)
(***************************************************************************)
ServerInit ==
    /\ listener = "accepting"
    /\ pc = [c \in Conns |-> "idle"]
    /\ sent = [c \in Conns |-> <<>>]
    /\ closed = [c \in Conns |-> FALSE]
    /\ request = [c \in Conns |-> <<>>]
    /\ out = [c \in Conns |-> <<>>]
    /\ fault = [c \in Conns |-> "none"]

TotalSent == Len(sent["c1"]) + Len(sent["c2"])

\* The next connection of tcpLister.incoming() is Ok: a worker is spawned
\* for it and starts in read_to_string.
Accept(c) ==
    /\ listener = "accepting"
    /\ pc[c] = "idle"
    /\ pc' = [pc EXCEPT ![c] = "reading"]
    /\ UNCHANGED <<listener, sent, closed, request, out, fault, codecVars>>

\* The next connection of tcpLister.incoming() is an Err (the peer reset it
\* before it was accepted, say): stream.expect panics in the thread that
\* runs the accept loop.
AcceptFail(c) ==
    /\ listener = "accepting"
    /\ pc[c] = "idle"
    /\ listener' = "panicked"
    /\ pc' = [pc EXCEPT ![c] = "refused"]
    /\ fault' = [fault EXCEPT ![c] = "L113_accept_failed"]
    /\ UNCHANGED <<sent, closed, request, out, codecVars>>

\* The client writes one more request on its connection.
ClientSend(c, req) ==
    /\ pc[c] = "reading"
    /\ ~closed[c]
    /\ TotalSent < MaxReqs
    /\ sent' = [sent EXCEPT ![c] = Append(@, req)]
    /\ UNCHANGED <<listener, pc, closed, request, out, fault, codecVars>>

\* The client shuts down its sending side: the worker's read sees EOF.
ClientClose(c) ==
    /\ pc[c] = "reading"
    /\ ~closed[c]
    /\ closed' = [closed EXCEPT ![c] = TRUE]
    /\ UNCHANGED <<listener, pc, sent, request, out, fault, codecVars>>

\* read_to_string returns: it reads until EOF, so only once the client has
\* shut down its sending side, and with every byte the client wrote.
WorkerRead(c) ==
    /\ pc[c] = "reading"
    /\ closed[c]
    /\ request' = [request EXCEPT ![c] = Flatten(sent[c])]
    /\ pc' = [pc EXCEPT ![c] = "handling"]
    /\ UNCHANGED <<listener, sent, closed, out, fault, codecVars>>

\* read_to_string returns an Err (a reset connection, bytes that are not
\* UTF-8): the expect of line 120 panics in the worker.
ReadFail(c) ==
    /\ pc[c] = "reading"
    /\ pc' = [pc EXCEPT ![c] = "panicked"]
    /\ fault' = [fault EXCEPT ![c] = "L120_read_failed"]
    /\ UNCHANGED <<listener, sent, closed, request, out, codecVars>>

\* What a panic of the worker of c does to the threads: it unwinds that
\* worker, and no other thread.
PanicEffect(c, site) ==
    /\ pc' = [pc EXCEPT ![c] = "panicked"]
    /\ fault' = [fault EXCEPT ![c] = site]
    /\ UNCHANGED listener

\* Self::handleRequest(&request): a response to write, or a panic.
WorkerHandle(c) ==
    /\ pc[c] = "handling"
    /\ LET response == handleRequest(request[c])
       IN  IF response.ok
           THEN /\ pc' = [pc EXCEPT ![c] = "writing"]
                /\ UNCHANGED <<listener, fault>>
           ELSE PanicEffect(c, response.err)
    /\ UNCHANGED <<sent, closed, request, out, codecVars>>

\* stream.write_all(response): the one reply; the closure ends and the
\* stream is dropped.
WorkerWrite(c) ==
    /\ pc[c] = "writing"
    /\ out' = [out EXCEPT ![c] = @ \o handleRequest(request[c]).bytes]
    /\ pc' = [pc EXCEPT ![c] = "done"]
    /\ UNCHANGED <<listener, sent, closed, request, fault, codecVars>>

\* write_all returns an Err: the unwrap of line 124 panics in the worker.
WriteFail(c) ==
    /\ pc[c] = "writing"
    /\ PanicEffect(c, "L124_write_failed")
    /\ UNCHANGED <<sent, closed, request, out, codecVars>>

Next ==
    \/ \E c \in Conns : Accept(c)
    \/ \E c \in Conns : AcceptFail(c)
    \/ \E c \in Conns : \E req \in Requests(c) : ClientSend(c, req)
    \/ \E c \in Conns : ClientClose(c)
    \/ \E c \in Conns : WorkerRead(c)
    \/ \E c \in Conns : ReadFail(c)
    \/ \E c \in Conns : WorkerHandle(c)
    \/ \E c \in Conns : WorkerWrite(c)
    \/ \E c \in Conns : WriteFail(c)

Init == ServerInit /\ CodecIdle

Spec == Init /\ [][Next]_vars

\* A step of the worker of c.
WorkerStep(c) == WorkerRead(c) \/ WorkerHandle(c) \/ WorkerWrite(c)

CodecInit == CodecInputs /\ ServerInit

SpecCodec == CodecInit /\ [][CodecNext]_vars

-----------------------------------------------------------------------------
(***************************************************************************)
(* Properties of the codec (under SpecCodec).                              *)
(***************************************************************************)
HasCRLF(s) == FindCRLF(s) # 0

\* No SimpleString of the value holds a CR or an LF.
RECURSIVE SimpleStringsClean(_)
SimpleStringsClean(v) ==
    CASE v.t = "SimpleString" -> \A i \in 1..Len(v.s) : v.s[i] \notin {CR, LF}
      [] v.t = "Array" -> \A i \in 1..Len(v.a) : SimpleStringsClean(v.a[i])
      [] OTHER -> TRUE

\* C1: round trip.  For every value whose SimpleStrings hold no CR or LF,
\* decode(encode(v)) returns v and the empty remainder.
C1_RoundTrip ==
    (corigin = "value" /\ cphase = "decoded" /\ crest = <<>> /\ SimpleStringsClean(cv))
        => cres = Ok(cv, <<>>)

\* C2: pipelining / exact consumption.  decode(encode(v1) ++ rest) returns
\* (v1, rest); when rest is encode(v2), decoding the returned remainder
\* returns v2 and the empty remainder.
C2_Pipelining ==
    (corigin = "value" /\ SimpleStringsClean(cv)) =>
        /\ cphase = "decoded" => cres = Ok(cv, crest)
        /\ cphase = "decoded2" =>
               \A v2 \in NextValues : crest = encode(v2) => cres = Ok(v2, <<>>)

\* C10: length discipline.  Decoding a bulk-string frame whose declared
\* length differs from the length of the payload in front of the terminator
\* fails at the length check and returns no value.
C10_LengthDiscipline ==
    (corigin = "raw" /\ cphase = "decoded") =>
        \A n \in 0..MaxDeclared, p \in Strs(MaxStrLen), r \in Rests :
            (cin = BulkFrame(n, p, r) /\ ~HasCRLF(p) /\ n # Len(p))
            => (~cres.ok /\ cres.err = "L66_length_mismatch" /\ cres.val = NoValue)

\* `$3\r\naa\r\n` (declared 3, actual 2) has been decoded.
C10_Witness ==
    /\ cphase = "decoded"
    /\ cin = <<"$", "3", CR, LF, "a", "a", CR, LF>>
    /\ cres = Panic("L66_length_mismatch")

\* C12: binary-safe bulk strings.  Decoding `$<n>\r\n<payload>\r\n<rest>`,
\* where the payload is any n bytes (CR and LF among them), returns
\* BulkString(payload) and rest.
C12_BinarySafeBulk ==
    (corigin = "raw" /\ cphase = "decoded") =>
        \A p \in Strs(MaxStrLen), r \in Rests :
            cin = BulkFrame(Len(p), p, r) => cres = Ok(BulkString(p), r)

\* C13: incomplete input.  Decoding a proper prefix of a valid encoding (the
\* empty input included) returns the outcome "incomplete", on which the
\* caller reads more bytes; it is no panic and no value.
C13_IncompleteOutcome ==
    (corigin = "prefix" /\ cphase = "decoded" /\ SimpleStringsClean(cv))
        => (~cres.ok /\ cres.err = "incomplete")

\* C17: null markers.  Decoding `$-1\r\n` ++ rest succeeds with a (null)
\* bulk string and rest; decoding `*-1\r\n` ++ rest succeeds with a (null)
\* array and rest.
C17_NullMarkers ==
    (corigin = "raw" /\ cphase = "decoded") =>
        \A r \in Rests :
            /\ cin = NullBulkFrame(r) =>
                   (cres.ok /\ cres.val.t = "BulkString" /\ cres.rest = r)
            /\ cin = NullArrayFrame(r) =>
                   (cres.ok /\ cres.val.t = "Array" /\ cres.rest = r)

\* C19: canonical decoding.  Whenever decode succeeds on a buffer with a
\* value and a remainder, the buffer is the encoding of that value followed
\* by that remainder.
C19_CanonicalDecoding ==
    (cphase \in {"decoded", "decoded2"} /\ cres.ok)
        => cin = encode(cres.val) \o cres.rest

-----------------------------------------------------------------------------
(***************************************************************************)
(* Properties of the server (under Spec).                                  *)
(***************************************************************************)
IoFaults == {"L113_accept_failed", "L120_read_failed", "L124_write_failed"}

\* The worker of c has ended, and not by a failure of the connection itself.
Served(c) == pc[c] \in {"done", "panicked"} /\ fault[c] \notin IoFaults

IsSuffix(s, t) == Len(s) <= Len(t) /\ SubSeq(t, Len(t) - Len(s) + 1, Len(t)) = s

ReplyPong == <<"+">> \o PONG \o CRLF
ReplyOk == <<"+", "O", "K">> \o CRLF
ReplyNull == <<"$", "-", "1">> \o CRLF
ReplyBulk(v) == <<"$">> \o ToDecimal(Len(v)) \o CRLF \o v \o CRLF

PingRequests == {ReqPing} \cup {ReqPingArg(arg) : arg \in PingArgs}

\* The reply the wire examples give for a PING request.
PingReply(req) ==
    IF req = ReqPing THEN ReplyPong
    ELSE LET arg == CHOOSE a \in PingArgs : req = ReqPingArg(a)
         IN  <<"+">> \o arg \o CRLF

\* C3: per-connection ordering.  A connection that delivers k >= 1 complete
\* requests back to back gets exactly k replies, the i-th the reply to the
\* i-th request.
C3_PipelinedReplies ==
    \A c \in Conns :
        (Served(c) /\ Len(sent[c]) >= 1
            /\ \A i \in 1..Len(sent[c]) : sent[c][i] \in PingRequests)
        => out[c] = Flatten([i \in 1..Len(sent[c]) |-> PingReply(sent[c][i])])

\* C4: every request a client sends on an open connection is answered while
\* the client keeps the connection open: a worker whose connection holds a
\* request can go on to answer it without the client first closing its
\* sending side.
C4_AnsweredWhileOpen ==
    \A c \in Conns :
        /\ (pc[c] = "reading" /\ sent[c] # <<>> /\ ~closed[c]) => ENABLED WorkerStep(c)
        /\ (Served(c) /\ sent[c] # <<>>) => out[c] # <<>>

\* C5: store semantics.  SET replies +OK; a later GET of that key replies the
\* value of the most recent SET; GET of a key never set replies the null
\* bulk string.
C5_StoreSemantics ==
    \A c \in Conns : \A k \in Keys :
        LET v == OwnValue(c)
            untouched == \A d \in Conns : \A i \in 1..Len(sent[d]) :
                             sent[d][i] # ReqSet(k, OwnValue(d))
        IN  Served(c) =>
              /\ sent[c] = <<ReqSet(k, v)>> => out[c] = ReplyOk
              /\ sent[c] = <<ReqSet(k, v), ReqGet(k)>> => out[c] = ReplyOk \o ReplyBulk(v)
              /\ (sent[c] = <<ReqGet(k)>> /\ untouched) => out[c] = ReplyNull

C7_CommandErrorReply ==
    \A c \in Conns :
        (Served(c) /\ sent[c] # <<>> /\ sent[c][1] \in {ReqUnknown, ReqGetNoKey})
        => /\ fault[c] = "none"
           /\ out[c] # <<>>
           /\ Head(out[c]) = "-"
           /\ (Len(sent[c]) = 2 /\ sent[c][2] = ReqPing) => IsSuffix(ReplyPong, out[c])

\* C8: fault isolation.  A framing error, an I/O failure or a close on one
\* connection ends that connection's worker only: the accept loop and the
\* workers of the other connections are as they were.
C8_FaultIsolation ==
    [][\A c \in Conns :
          (\/ fault[c] = "none" /\ fault'[c] # "none"
           \/ pc[c] # "done" /\ pc'[c] = "done")
          => /\ listener' = listener
             /\ \A d \in Conns \ {c} :
                    pc'[d] = pc[d] /\ out'[d] = out[d] /\ fault'[d] = fault[d]]_vars

\* C9: store atomicity.  A GET on a key no other worker writes observes the
\* worker's own latest SET; a GET on a shared key observes, in full, null or
\* the value of one SET on that key.
C9_StoreAtomicity ==
    \A c \in Conns : \A k \in Keys :
        LET written == {OwnValue(d) : d \in {e \in Conns :
                            \E i \in 1..Len(sent[e]) : sent[e][i] = ReqSet(k, OwnValue(e))}}
            others == {OwnValue(d) : d \in {e \in Conns \ {c} :
                            \E i \in 1..Len(sent[e]) : sent[e][i] = ReqSet(k, OwnValue(e))}}
        IN  Served(c) =>
              /\ (sent[c] = <<ReqSet(k, OwnValue(c)), ReqGet(k)>> /\ others = {})
                   => IsSuffix(ReplyBulk(OwnValue(c)), out[c])
              /\ sent[c] = <<ReqGet(k)>>
                   => out[c] \in {ReplyNull} \cup {ReplyBulk(v) : v \in written}

\* C11: a malformed request (a length that does not match the payload, a
\* byte that is no type tag) is answered with exactly one RESP Error, and the
\* worker ends without a fault of its own.
C11_MalformedErrorReply ==
    \A c \in Conns :
        (Served(c) /\ sent[c] # <<>> /\ sent[c][1] \in {ReqBadLength, ReqBadTag})
        => /\ fault[c] = "none"
           /\ out[c] # <<>>
           /\ Head(out[c]) = "-"
           /\ FindCRLF(out[c]) = Len(out[c]) - 1

\* C14: a connection the peer closes without having sent a byte ends its
\* worker cleanly: no reply is written and no fault is raised.
C14_CleanEndOnClose ==
    \A c \in Conns :
        (Served(c) /\ sent[c] = <<>>)
        => (pc[c] = "done" /\ fault[c] = "none" /\ out[c] = <<>>)

\* C15: PING with two arguments is answered with a RESP Error, never with
\* PONG or an echo.
C15_PingArity ==
    \A c \in Conns :
        (Served(c) /\ sent[c] = <<ReqPingTwo>>)
        => /\ fault[c] = "none"
           /\ out[c] # <<>>
           /\ Head(out[c]) = "-"

\* C16: a well-formed request that is not a non-empty array of bulk strings
\* is answered with a RESP Error value; the worker does not abort.
C16_NotACommand ==
    \A c \in Conns :
        (Served(c) /\ sent[c] # <<>>
             /\ sent[c][1] \in {ReqNotArray, ReqEmptyArray, ReqSimpleItem})
        => /\ pc[c] = "done"
           /\ out[c] # <<>>
           /\ Head(out[c]) = "-"

\* C18: a SimpleString reply holds no CR and no LF between its tag and its
\* terminator.
C18_SimpleStringReplies ==
    \A c \in Conns :
        (pc[c] = "done" /\ out[c] # <<>> /\ Head(out[c]) = "+")
        => \A i \in 2..(Len(out[c]) - 2) : out[c][i] \notin {CR, LF}

=============================================================================
